---- MODULE Spec2Model ----
(***************************************************************************)
(* A model of the two games of games.py (subtract square and chopsticks),  *)
(* their current-state classes and the Game wrappers.                      *)
(*                                                                         *)
(* State objects live in a heap (a sequence of records, an object's        *)
(* reference is its index).  make_move deep-copies the receiver into a     *)
(* fresh object and assigns to the copy; the caller stores the returned    *)
(* reference in game.current_state and keeps the last MaxKept objects.     *)
(***************************************************************************)
EXTENDS Integers, Sequences, FiniteSets, TLC

VARIABLES game, heap, nmoves, ret

vars == <<game, heap, nmoves, ret>>

(* ---------------------------- bounds ----------------------------------- *)

\* largest starting value typed at SubtractSquareGame.initial_input
MaxStart == 10
\* number of moves the caller plays before it stops
MaxMoves == 11
\* number of state objects the caller keeps referenced
MaxKept == 3
\* longest raw move string typed at the prompt
MaxLen == 4
\* number of moves of a second play whose states are compared with the first
MaxSecond == 6

(* ------------------------ Python values -------------------------------- *)

\* a Python int / str value offered as a move
IntMove(n) == [t |-> "int", v |-> n]
StrMove(s) == [t |-> "str", v |-> s]

\* x in lst, for a list whose elements all have Python type ty:
\* == between an int and a str is False, it does not raise
PyIn(mv, lst, ty) == mv.t = ty /\ \E i \in DOMAIN lst : lst[i] = mv.v

\* int(s) for a string of decimal digits, given as the sequence of its digits
RECURSIVE PyInt(_)
PyInt(ds) == IF ds = <<>> THEN 0
             ELSE 10 * PyInt(SubSeq(ds, 1, Len(ds) - 1)) + ds[Len(ds)]

\* GameCurrentState.get_current_player_name
get_current_player_name(s) == IF s.is_p1_turn THEN "p1" ELSE "p2"

\* no copy is made: the receiver itself is returned
NoCopy(h, self) == [heap |-> h, ref |-> self]

\* copy.deepcopy(self): a fresh object with equal fields
DeepCopy(h, self) == [heap |-> Append(h, h[self]), ref |-> Len(h) + 1]

\* the turn is left as it was
KeepTurn(is_p1_turn) == is_p1_turn

\* copied.is_p1_turn = not copied.is_p1_turn
FlipTurn(is_p1_turn) == ~is_p1_turn

(* --------------------- SSGameCurrentState ------------------------------ *)

\* the loop with < in place of <=
RECURSIVE SS_moves_loop_strict(_, _, _)
SS_moves_loop_strict(i, possible_moves, current_val) ==
    IF i * i < current_val
    THEN SS_moves_loop_strict(i + 1, Append(possible_moves, i * i), current_val)
    ELSE possible_moves

\* the loop that never offers the move 1
RECURSIVE SS_moves_loop_no1(_, _, _)
SS_moves_loop_no1(i, possible_moves, current_val) ==
    IF i * i <= current_val
    THEN SS_moves_loop_no1(i + 1,
             IF i = 1 THEN possible_moves ELSE Append(possible_moves, i * i),
             current_val)
    ELSE possible_moves

\* the while loop of SSGameCurrentState.get_possible_moves
RECURSIVE SS_moves_loop(_, _, _)
SS_moves_loop(i, possible_moves, current_val) ==
    IF i * i <= current_val
    THEN SS_moves_loop(i + 1, Append(possible_moves, i * i), current_val)
    ELSE possible_moves

SS_get_possible_moves(s) == SS_moves_loop(1, <<>>, s.current_val)

\* SSGameCurrentState.__init__ : the cache is filled from the fresh value
SS_init(is_p1_turn, current_val) ==
    LET s0 == [is_p1_turn |-> is_p1_turn, current_val |-> PyInt(current_val),
               possible_moves_list |-> <<>>]
    IN [s0 EXCEPT !.possible_moves_list = SS_get_possible_moves(s0)]

\* any number from 1 up to the value is accepted
SS_is_valid_move_upto(s, mv) ==
    mv.t = "int" /\ mv.v >= 1 /\ mv.v <= s.current_val

\* SSGameCurrentState.is_valid_move reads the cached list
SS_is_valid_move(s, mv) == PyIn(mv, s.possible_moves_list, "int")

\* the value goes down by one whatever the move
SS_new_val_one(current_val, move_to_make) == current_val - 1

\* copied.current_val -= move_to_make
SS_new_val(current_val, move_to_make) == current_val - move_to_make

\* a Python value with its type, as the argument of __eq__; made tells how
\* the value came about
PyObj(t, made, v) == [t |-> t, v |-> v, made |-> made]

\* the cached lists are not compared
SS_eq_nocache(self, other) ==
    /\ other.t = "SSGameCurrentState"
    /\ self.is_p1_turn = other.v.is_p1_turn
    /\ self.current_val = other.v.current_val

\* SSGameCurrentState.__eq__
SS_eq(self, other) ==
    /\ other.t = "SSGameCurrentState"
    /\ self.is_p1_turn = other.v.is_p1_turn
    /\ self.current_val = other.v.current_val
    /\ self.possible_moves_list = other.v.possible_moves_list

\* the cached list is not refreshed after the subtraction
SS_make_move_stale(h, self, move_to_make) ==
    LET c  == DeepCopy(h, self)
        h1 == [c.heap EXCEPT ![c.ref].is_p1_turn = FlipTurn(@)]
        h2 == [h1 EXCEPT ![c.ref].current_val = SS_new_val(@, move_to_make)]
    IN [heap |-> h2, ref |-> c.ref]

\* SSGameCurrentState.make_move
SS_make_move(h, self, move_to_make) ==
    LET c  == DeepCopy(h, self)
        h1 == [c.heap EXCEPT ![c.ref].is_p1_turn = FlipTurn(@)]
        h2 == [h1 EXCEPT ![c.ref].current_val = SS_new_val(@, move_to_make)]
        h3 == [h2 EXCEPT ![c.ref].possible_moves_list =
                                     SS_get_possible_moves(h2[c.ref])]
    IN [heap |-> h3, ref |-> c.ref]

(* --------------------- CSGameCurrentState ------------------------------ *)

\* CSGameCurrentState.__init__ : both players start with 1 on both hands
CS_init(is_p1_turn) ==
    [is_p1_turn |-> is_p1_turn,
     current_value |-> <<1, 1, 1, 1>>,
     possible_moves_p1 |-> <<"ll", "lr", "rl", "rr">>,
     possible_moves_p2 |-> <<"ll", "lr", "rl", "rr">>]

\* the three-way branch on the opponent's hands (tl, tr), for the move
\* lists both / right-only / left-only of one own-hand case
CS_branch(tl, tr, both, right, left) ==
    IF tl # 0 /\ tr # 0 THEN both
    ELSE IF tl = 0 /\ tr # 0 THEN right
    ELSE left

\* a player with a dead hand is given no move at all
CS_moves_for_anydead(ol, or_, tl, tr) ==
    IF ol # 0 /\ or_ # 0
    THEN CS_branch(tl, tr, <<"ll", "lr", "rl", "rr">>, <<"lr", "rr">>, <<"ll", "rl">>)
    ELSE <<>>

\* the branch on the active player's own hands (ol, or_) and, nested in
\* it, on the opponent's hands (tl, tr); the same tree for p1 and for p2
CS_moves_for(ol, or_, tl, tr) ==
    IF ol # 0 /\ or_ # 0
    THEN CS_branch(tl, tr, <<"ll", "lr", "rl", "rr">>, <<"lr", "rr">>, <<"ll", "rl">>)
    ELSE IF ol = 0 /\ or_ # 0
    THEN CS_branch(tl, tr, <<"rl", "rr">>, <<"rr">>, <<"rl">>)
    ELSE IF ol # 0 /\ or_ = 0
    THEN CS_branch(tl, tr, <<"ll", "lr">>, <<"lr">>, <<"ll">>)
    ELSE <<>>

\* CSGameCurrentState.get_possible_moves
CS_get_possible_moves(s) ==
    LET p1_l == s.current_value[1]
        p1_r == s.current_value[2]
        p2_l == s.current_value[3]
        p2_r == s.current_value[4]
    IN IF get_current_player_name(s) = "p1"
       THEN CS_moves_for(p1_l, p1_r, p2_l, p2_r)
       ELSE CS_moves_for(p2_l, p2_r, p1_l, p1_r)

\* CSGameCurrentState.is_valid_move recomputes the list
CS_is_valid_move(s, mv) == PyIn(mv, CS_get_possible_moves(s), "str")

\* the sum is not reduced modulo 5
CS_touch_nomod(own, target) == own + target

\* the touched hand is doubled, the touching hand is not added
CS_touch_doubled(own, target) == (target + target) % 5

\* the new number of fingers of a touched hand
CS_touch(own, target) == (own + target) % 5

\* the branches of the two players are swapped: the mover's own hand is
\* the one that is rewritten
CS_new_value_swapped(s, move_to_make) ==
    LET p1_l == s.current_value[1]
        p1_r == s.current_value[2]
        p2_l == s.current_value[3]
        p2_r == s.current_value[4]
    IN IF get_current_player_name(s) = "p2"
       THEN IF move_to_make = "ll" THEN <<p1_l, p1_r, CS_touch(p1_l, p2_l), p2_r>>
            ELSE IF move_to_make = "lr" THEN <<p1_l, p1_r, p2_l, CS_touch(p1_l, p2_r)>>
            ELSE IF move_to_make = "rl" THEN <<p1_l, p1_r, CS_touch(p1_r, p2_l), p2_r>>
            ELSE <<p1_l, p1_r, p2_l, CS_touch(p1_r, p2_r)>>
       ELSE IF move_to_make = "ll" THEN <<CS_touch(p2_l, p1_l), p1_r, p2_l, p2_r>>
            ELSE IF move_to_make = "lr" THEN <<p1_l, CS_touch(p2_l, p1_r), p2_l, p2_r>>
            ELSE IF move_to_make = "rl" THEN <<CS_touch(p2_r, p1_l), p1_r, p2_l, p2_r>>
            ELSE <<p1_l, CS_touch(p2_r, p1_r), p2_l, p2_r>>

\* the hands after the move, CSGameCurrentState.make_move lines 365-396
CS_new_value(s, move_to_make) ==
    LET p1_l == s.current_value[1]
        p1_r == s.current_value[2]
        p2_l == s.current_value[3]
        p2_r == s.current_value[4]
    IN IF get_current_player_name(s) = "p1"
       THEN IF move_to_make = "ll" THEN <<p1_l, p1_r, CS_touch(p1_l, p2_l), p2_r>>
            ELSE IF move_to_make = "lr" THEN <<p1_l, p1_r, p2_l, CS_touch(p1_l, p2_r)>>
            ELSE IF move_to_make = "rl" THEN <<p1_l, p1_r, CS_touch(p1_r, p2_l), p2_r>>
            ELSE <<p1_l, p1_r, p2_l, CS_touch(p1_r, p2_r)>>
       ELSE IF move_to_make = "ll" THEN <<CS_touch(p2_l, p1_l), p1_r, p2_l, p2_r>>
            ELSE IF move_to_make = "lr" THEN <<p1_l, CS_touch(p2_l, p1_r), p2_l, p2_r>>
            ELSE IF move_to_make = "rl" THEN <<CS_touch(p2_r, p1_l), p1_r, p2_l, p2_r>>
            ELSE <<p1_l, CS_touch(p2_r, p1_r), p2_l, p2_r>>

\* the list of the player who just moved is refreshed, not the other one
CS_make_move_wrongcache(h, self, move_to_make) ==
    LET c  == DeepCopy(h, self)
        h1 == [c.heap EXCEPT ![c.ref].current_value =
                                     CS_new_value(c.heap[c.ref], move_to_make)]
        h2 == [h1 EXCEPT ![c.ref].is_p1_turn = FlipTurn(@)]
        h3 == IF get_current_player_name(h2[c.ref]) = "p2"
              THEN [h2 EXCEPT ![c.ref].possible_moves_p1 =
                                     CS_get_possible_moves(h2[c.ref])]
              ELSE [h2 EXCEPT ![c.ref].possible_moves_p2 =
                                     CS_get_possible_moves(h2[c.ref])]
    IN [heap |-> h3, ref |-> c.ref]

\* CSGameCurrentState.make_move
CS_make_move(h, self, move_to_make) ==
    LET c  == DeepCopy(h, self)
        h1 == [c.heap EXCEPT ![c.ref].current_value =
                                     CS_new_value(c.heap[c.ref], move_to_make)]
        h2 == [h1 EXCEPT ![c.ref].is_p1_turn = FlipTurn(@)]
        h3 == IF get_current_player_name(h2[c.ref]) = "p1"
              THEN [h2 EXCEPT ![c.ref].possible_moves_p1 =
                                     CS_get_possible_moves(h2[c.ref])]
              ELSE [h2 EXCEPT ![c.ref].possible_moves_p2 =
                                     CS_get_possible_moves(h2[c.ref])]
    IN [heap |-> h3, ref |-> c.ref]

\* the place of a move string in Python's order of str values
MoveRank(m) ==
    CASE m = "ll" -> 1 [] m = "lr" -> 2 [] m = "rl" -> 3 [] m = "rr" -> 4

\* x put into the sorted list lst at its place
RECURSIVE PyInsert(_, _)
PyInsert(x, lst) ==
    IF lst = <<>> THEN <<x>>
    ELSE IF MoveRank(x) <= MoveRank(Head(lst)) THEN <<x>> \o lst
    ELSE <<Head(lst)>> \o PyInsert(x, Tail(lst))

\* sorted(lst) of a list of move strings
RECURSIVE PySorted(_)
PySorted(lst) ==
    IF lst = <<>> THEN <<>> ELSE PyInsert(Head(lst), PySorted(Tail(lst)))

\* CSGameCurrentState.__eq__
CS_eq(self, other) ==
    /\ other.t = "CSGameCurrentState"
    /\ self.is_p1_turn = other.v.is_p1_turn
    /\ self.current_value = other.v.current_value
    /\ PySorted(self.possible_moves_p1) = PySorted(other.v.possible_moves_p1)
    /\ PySorted(self.possible_moves_p2) = PySorted(other.v.possible_moves_p2)

(* ------------------------------ Game ----------------------------------- *)

\* SubtractSquareGame.__str__ and ChopsticksGame.__str__ : the text before
\* the player, the player, the text after it
SS_game_str(self) ==
    LET player == IF self.is_p1_turn THEN "p1" ELSE "p2"
    IN <<"This is a subtract square game, and it's ", player, "'s turn to move.">>
CS_game_str(self) ==
    LET player == IF self.is_p1_turn THEN "p1" ELSE "p2"
    IN <<"This is a chopsticks game, and it's ", player, "'s turn to move.">>

\* Game.is_over, the same test on either kind of state
SS_is_over(current_s) == SS_get_possible_moves(current_s) = <<>>
CS_is_over(current_s) == CS_get_possible_moves(current_s) = <<>>

\* the player who is stuck is reported as the winner
SS_is_winner_stuck(g, h, current_player) ==
    LET current_player_playing ==
            IF h[g.current_state].is_p1_turn THEN "p1" ELSE "p2"
    IN IF h[g.current_state].possible_moves_list = <<>>
       THEN current_player = current_player_playing
       ELSE FALSE

\* SubtractSquareGame.is_winner reads the cached list of the current state
SS_is_winner(g, h, current_player) ==
    LET current_player_playing ==
            IF h[g.current_state].is_p1_turn THEN "p1" ELSE "p2"
    IN IF h[g.current_state].possible_moves_list = <<>>
       THEN current_player # current_player_playing
       ELSE FALSE

\* ChopsticksGame.is_winner recomputes the list of the current state
CS_is_winner(g, h, current_player) ==
    LET current_player_playing ==
            IF h[g.current_state].is_p1_turn THEN "p1" ELSE "p2"
    IN IF CS_get_possible_moves(h[g.current_state]) = <<>>
       THEN current_player # current_player_playing
       ELSE FALSE

\* the list without "/"
unwanted_short == <<" ", "-", "_", "+">>

\* unwanted = [" ", "-", "_", "+", "/"]
unwanted == <<" ", "-", "_", "+", "/">>

\* the for loop of ChopsticksGame.str_to_move over the characters of move
RECURSIVE CS_str_to_move_loop(_, _, _)
CS_str_to_move_loop(move, i, new_move) ==
    IF i > Len(move) THEN new_move
    ELSE CS_str_to_move_loop(move, i + 1,
             IF \E k \in DOMAIN unwanted : unwanted[k] = move[i]
             THEN new_move
             ELSE Append(new_move, move[i]))

\* ChopsticksGame.str_to_move; a string is the sequence of its characters
CS_str_to_move(move) == CS_str_to_move_loop(move, 1, <<>>)

(* ------------------------- the running game --------------------------- *)

\* the set of the elements of a list
Range(lst) == {lst[i] : i \in DOMAIN lst}

\* the state object game.current_state refers to
cur == heap[game.current_state]

\* no call has returned yet
NoRet == [op |-> "none"]

\* what the user can type at initial_input: one or two decimal digits
StartInputs ==
    {ds \in UNION {[1..n -> 0..9] : n \in 1..2} : PyInt(ds) <= MaxStart}

\* candidate moves offered to a subtract-square state: every number up to
\* one more than the largest value
SSNumbers == 0..(MaxStart + 1)

\* candidate strings offered as moves
CSStrings == {"ll", "lr", "rl", "rr", "derp"}

\* SubtractSquareGame.__init__
InitSS ==
    \E is_p1_turn \in BOOLEAN, starting_num \in StartInputs :
        /\ game = [is_p1_turn |-> is_p1_turn, current_state |-> 1, kind |-> "SS"]
        /\ heap = <<SS_init(is_p1_turn, starting_num)>>
        /\ nmoves = 0
        /\ ret = NoRet

\* ChopsticksGame.__init__
InitCS ==
    \E is_p1_turn \in BOOLEAN :
        /\ game = [is_p1_turn |-> is_p1_turn, current_state |-> 1, kind |-> "CS"]
        /\ heap = <<CS_init(is_p1_turn)>>
        /\ nmoves = 0
        /\ ret = NoRet

Init == InitSS \/ InitCS

\* game.current_state = <result of make_move>; the caller keeps the last
\* MaxKept state objects and lets go of the oldest one
Store(r) ==
    IF Len(r.heap) > MaxKept
    THEN /\ heap' = Tail(r.heap)
         /\ game' = [game EXCEPT !.current_state = r.ref - 1]
    ELSE /\ heap' = r.heap
         /\ game' = [game EXCEPT !.current_state = r.ref]

\* one turn of subtract square: a move that passed is_valid_move is applied
SSPlay(n) ==
    /\ game.kind = "SS"
    /\ SS_is_valid_move(cur, IntMove(n))
    /\ Store(SS_make_move(heap, game.current_state, n))
    /\ ret' = NoRet

\* one turn of chopsticks: a move that passed is_valid_move is applied
CSPlay(m) ==
    /\ game.kind = "CS"
    /\ CS_is_valid_move(cur, StrMove(m))
    /\ Store(CS_make_move(heap, game.current_state, m))
    /\ ret' = NoRet

\* the caller counts the turns and stops after MaxMoves
Counted == nmoves < MaxMoves /\ nmoves' = nmoves + 1

SSMove == \E n \in SSNumbers : SSPlay(n) /\ Counted
CSMove == \E m \in CSStrings : CSPlay(m) /\ Counted

\* a turn of chopsticks in a play the caller does not cut short
CSFreeMove == \E m \in CSStrings : CSPlay(m) /\ UNCHANGED nmoves

\* a call of current_state.is_valid_move(mv)
SSIsValidMove(mv) ==
    /\ game.kind = "SS"
    /\ ret' = [op |-> "is_valid_move", arg |-> mv, val |-> SS_is_valid_move(cur, mv)]
    /\ UNCHANGED <<game, heap, nmoves>>

CSIsValidMove(mv) ==
    /\ game.kind = "CS"
    /\ ret' = [op |-> "is_valid_move", arg |-> mv, val |-> CS_is_valid_move(cur, mv)]
    /\ UNCHANGED <<game, heap, nmoves>>

SSAskValid ==
    \/ \E n \in SSNumbers : SSIsValidMove(IntMove(n))
    \/ \E m \in {"ll"} : SSIsValidMove(StrMove(m))

CSAskValid ==
    \/ \E m \in CSStrings : CSIsValidMove(StrMove(m))
    \/ \E n \in {1} : CSIsValidMove(IntMove(n))

\* a call of game.is_winner(p)
SSAskWinner ==
    \E p \in {"p1", "p2"} :
        /\ game.kind = "SS"
        /\ ret' = [op |-> "is_winner", arg |-> p, val |-> SS_is_winner(game, heap, p)]
        /\ UNCHANGED <<game, heap, nmoves>>

CSAskWinner ==
    \E p \in {"p1", "p2"} :
        /\ game.kind = "CS"
        /\ ret' = [op |-> "is_winner", arg |-> p, val |-> CS_is_winner(game, heap, p)]
        /\ UNCHANGED <<game, heap, nmoves>>

\* a call of current_state.get_possible_moves()
SSAskMoves ==
    /\ game.kind = "SS"
    /\ ret' = [op |-> "get_possible_moves", val |-> SS_get_possible_moves(cur)]
    /\ UNCHANGED <<game, heap, nmoves>>

CSAskMoves ==
    /\ game.kind = "CS"
    /\ ret' = [op |-> "get_possible_moves", val |-> CS_get_possible_moves(cur)]
    /\ UNCHANGED <<game, heap, nmoves>>

\* the states SSGameCurrentState(is_p1_turn, starting_num) constructs
SSConstructed ==
    {SS_init(is_p1_turn, starting_num) :
         is_p1_turn \in BOOLEAN, starting_num \in StartInputs}

\* the states one legal make_move away from a constructed state
SSMovedOnce ==
    UNION {{LET r == SS_make_move(<<s>>, 1, m) IN r.heap[r.ref] :
                m \in Range(s.possible_moves_list)} : s \in SSConstructed}

\* a call of current_state.__eq__(other)
SSEq(other) ==
    /\ game.kind = "SS"
    /\ ret' = [op |-> "__eq__", arg |-> other, val |-> SS_eq(cur, other)]
    /\ UNCHANGED <<game, heap, nmoves>>

\* other is a string, a constructed state, a state made by make_move, or
\* one of these states after  other.possible_moves_list = []
SSAskEq ==
    \/ SSEq(PyObj("str", "literal", "SSGameCurrentState(True, 10)"))
    \/ \E s \in SSConstructed : SSEq(PyObj("SSGameCurrentState", "constructed", s))
    \/ \E s \in SSMovedOnce : SSEq(PyObj("SSGameCurrentState", "moved", s))
    \/ \E s \in SSConstructed \cup SSMovedOnce :
          SSEq(PyObj("SSGameCurrentState", "tampered",
                     [s EXCEPT !.possible_moves_list = <<>>]))

\* the upper end is one too high
PyRandint_wide(a, b) == a..(b + 1)

\* random.randint(a, b): any integer from a to b; none when a > b
PyRandint(a, b) == a..b

\* current_strategy(game) on the move list of the current state: it raises
\* when randint has no value to give or the index is out of range
current_strategy(legal_moves) ==
    LET total_moves == Len(legal_moves)
    IN \/ /\ PyRandint(0, total_moves - 1) = {}
          /\ ret' = [op |-> "current_strategy", raised |-> TRUE]
       \/ \E k \in PyRandint(0, total_moves - 1) :
             IF k < total_moves
             THEN ret' = [op |-> "current_strategy",
                          val |-> legal_moves[k + 1], raised |-> FALSE]
             ELSE ret' = [op |-> "current_strategy", raised |-> TRUE]

\* a call of current_strategy(game)
SSStrategy ==
    /\ game.kind = "SS"
    /\ current_strategy(SS_get_possible_moves(cur))
    /\ UNCHANGED <<game, heap, nmoves>>

CSStrategy ==
    /\ game.kind = "CS"
    /\ current_strategy(CS_get_possible_moves(cur))
    /\ UNCHANGED <<game, heap, nmoves>>

\* the characters a raw move string is made of
Chars == {" ", "-", "_", "+", "/", "l", "r", "?"}

\* the raw move strings typed at the prompt
RawInputs == UNION {[1..n -> Chars] : n \in 0..MaxLen}

\* a chopsticks game and a raw move string read from the prompt
InitCSStr ==
    \E is_p1_turn \in BOOLEAN, move \in RawInputs :
        /\ game = [is_p1_turn |-> is_p1_turn, current_state |-> 1, kind |-> "CS"]
        /\ heap = <<CS_init(is_p1_turn)>>
        /\ nmoves = 0
        /\ ret = [op |-> "input", val |-> move]

\* the call game.str_to_move(move) on the string that was read
CSStrToMove ==
    /\ game.kind = "CS"
    /\ ret.op = "input"
    /\ ret' = [op |-> "str_to_move", arg |-> ret.val, val |-> CS_str_to_move(ret.val)]
    /\ UNCHANGED <<game, heap, nmoves>>

\* the states that one make_move with a move of get_possible_moves() makes
\* out of the states of S
CS_successors(S) ==
    UNION {{LET r == CS_make_move(<<s>>, 1, m) IN r.heap[r.ref] :
                m \in Range(CS_get_possible_moves(s))} : s \in S}

\* the states reached from those of S by at most n such make_move calls
RECURSIVE CS_reached(_, _)
CS_reached(S, n) ==
    IF n = 0 THEN S
    ELSE LET T == S \cup CS_successors(S)
         IN IF T = S THEN S ELSE CS_reached(T, n - 1)

\* the states of a second play of up to MaxSecond legal moves from
\* CSGameCurrentState(True), and from CSGameCurrentState(False)
CSReachedP1 == CS_reached({CS_init(TRUE)}, MaxSecond)
CSReachedP2 == CS_reached({CS_init(FALSE)}, MaxSecond)

\* a call of current_state.__eq__(other)
CSEq(other) ==
    /\ game.kind = "CS"
    /\ ret' = [op |-> "__eq__", arg |-> other, val |-> CS_eq(cur, other)]
    /\ UNCHANGED <<game, heap, nmoves>>

\* other is a subtract-square state, or a state of a second play from the
\* same initial state that has the player to move and the hands of the
\* current state
CSAskEq ==
    \/ CSEq(PyObj("SSGameCurrentState", "constructed", SS_init(TRUE, <<2, 0>>)))
    \/ \E s \in IF game.is_p1_turn THEN CSReachedP1 ELSE CSReachedP2 :
          /\ s.is_p1_turn = cur.is_p1_turn
          /\ s.current_value = cur.current_value
          /\ CSEq(PyObj("CSGameCurrentState", "moved", s))

\* a call of str(game)
SSAskStr ==
    /\ game.kind = "SS"
    /\ ret' = [op |-> "__str__", val |-> SS_game_str(game)]
    /\ UNCHANGED <<game, heap, nmoves>>

CSAskStr ==
    /\ game.kind = "CS"
    /\ ret' = [op |-> "__str__", val |-> CS_game_str(game)]
    /\ UNCHANGED <<game, heap, nmoves>>

NextSS ==
    SSMove \/ SSAskValid \/ SSAskWinner \/ SSAskMoves \/ SSStrategy \/ SSAskEq
NextCS == CSMove \/ CSAskValid \/ CSAskWinner \/ CSAskMoves \/ CSStrategy
Next == NextSS \/ NextCS

\* a chopsticks state whose hands were set to any values in [0,4]
InitCSAny ==
    \E is_p1_turn \in BOOLEAN, hands \in [1..4 -> 0..4] :
        /\ game = [is_p1_turn |-> is_p1_turn, current_state |-> 1, kind |-> "CS"]
        /\ heap = <<[CS_init(is_p1_turn) EXCEPT !.current_value = hands]>>
        /\ nmoves = 0
        /\ ret = NoRet

\* either game
Spec == Init /\ [][Next]_vars
\* subtract square alone
SpecSS == InitSS /\ [][NextSS]_vars
\* chopsticks alone
SpecCS == InitCS /\ [][NextCS]_vars

\* get_possible_moves applied to every chopsticks hand configuration
SpecCSAny == InitCSAny /\ [][CSAskMoves]_vars
\* str_to_move applied to every raw move string
SpecCSStr == InitCSStr /\ [][CSStrToMove]_vars
\* chopsticks alone, played on as long as a move is legal
FairSpecCS == InitCS /\ [][CSFreeMove]_vars /\ WF_vars(CSFreeMove)
\* subtract square alone, played on as long as a move is legal
FairSpecSS == SpecSS /\ WF_vars(SSMove)
\* chopsticks alone, the current state compared with states of a second play
SpecCSEq == InitCS /\ [][CSMove \/ CSAskEq]_vars
\* either game, printed between the moves
SpecStr == Init /\ [][SSMove \/ CSMove \/ SSAskStr \/ CSAskStr]_vars

(* ------------------------------ claims --------------------------------- *)

\* the player the current state says is to move
Active == cur.is_p1_turn

\* a step in which make_move was applied
Moved == nmoves' = nmoves + 1

\* C1: along any play of either game the active player alternates strictly:
\* after k moves from a start with active player P it is P when k is even
\* and the other player when k is odd; every make_move negates the turn and
\* no other operation changes it.
C1_Alternates ==
    /\ [](Active = (game.is_p1_turn <=> (nmoves % 2 = 0)))
    /\ [][Moved => cur'.is_p1_turn = ~cur.is_p1_turn]_vars
    /\ [][~Moved => cur'.is_p1_turn = cur.is_p1_turn]_vars

C1_Witness == game.kind = "CS" /\ nmoves = 3 /\ Active # game.is_p1_turn

\* the perfect squares k*k with k >= 1 and k*k <= v, ascending, no duplicates
IsSquaresUpTo(lst, v) ==
    /\ Range(lst) = {n \in 1..v : \E k \in 1..v : k * k = n}
    /\ \A i, j \in DOMAIN lst : i < j => lst[i] < lst[j]

\* C2: for every non-negative value v, get_possible_moves() of a
\* subtract-square state is exactly the ascending list of the perfect
\* squares <= v (empty for v = 0), and a second call returns the same list.
C2_SquaresUpTo ==
    /\ [](/\ IsSquaresUpTo(SS_get_possible_moves(cur), cur.current_val)
          /\ ret.op = "get_possible_moves" =>
                 IsSquaresUpTo(ret.val, cur.current_val))
    /\ [][(ret.op = "get_possible_moves" /\ ret'.op = "get_possible_moves")
              => ret'.val = ret.val]_vars

C2_Witness ==
    /\ cur.current_val = 9
    /\ ret.op = "get_possible_moves"
    /\ ret.val = <<1, 4, 9>>

\* C3: for every subtract-square state with value v and every legal move m,
\* make_move(m) returns a state with value v - m, which is non-negative and
\* smaller than v, and with the other player to move; the value is
\* non-negative in every state reached by legal moves.
C3_ValueAfterMove ==
    /\ cur.current_val >= 0
    /\ \A m \in Range(SS_get_possible_moves(cur)) :
          LET r  == SS_make_move(heap, game.current_state, m)
              s2 == r.heap[r.ref]
          IN /\ s2.current_val = cur.current_val - m
             /\ s2.current_val >= 0
             /\ s2.current_val < cur.current_val
             /\ s2.is_p1_turn = ~cur.is_p1_turn

C3_Witness ==
    /\ nmoves = 2
    /\ cur.current_val = 5
    /\ Len(heap) = 3
    /\ heap[2].current_val = 9
    /\ heap[1].current_val = 10

\* C4: subtract square terminates: a play from a non-negative start has no
\* more moves than the start value, and a play continued as long as a move
\* is legal reaches value 0 and stays there (it is never stuck above 0).
C4_Terminates ==
    /\ [](nmoves + cur.current_val <= MaxStart)
    /\ <>[](cur.current_val = 0 /\ SS_is_over(cur))

C4_Witness == nmoves = 3 /\ cur.current_val = 0 /\ heap[1].current_val = 2

\* the index in current_value of the hand that makes / takes the move m
\* when player p1 (TRUE) or p2 (FALSE) moves
SourceHand(is_p1, m) ==
    (IF is_p1 THEN 0 ELSE 2) + (IF m \in {"ll", "lr"} THEN 1 ELSE 2)
TargetHand(is_p1, m) ==
    (IF is_p1 THEN 2 ELSE 0) + (IF m \in {"ll", "rl"} THEN 1 ELSE 2)

\* C5: for every chopsticks state and every legal move of the active
\* player, make_move sets the targeted hand of the opponent to (acting hand
\* + targeted hand) mod 5 and leaves the other three hands unchanged;
\* from the start with p1 to move 'll' gives (1,1,2,1) with p2 to move, and
\* from (4,1,3,1) p1's 'll' gives (4,1,2,1).
C5_TargetHand ==
    /\ \A m \in Range(CS_get_possible_moves(cur)) :
          LET r  == CS_make_move(heap, game.current_state, m)
              s2 == r.heap[r.ref]
              t  == TargetHand(cur.is_p1_turn, m)
              a  == SourceHand(cur.is_p1_turn, m)
          IN /\ s2.current_value[t] =
                    (cur.current_value[a] + cur.current_value[t]) % 5
             /\ \A i \in 1..4 : i # t =>
                    s2.current_value[i] = cur.current_value[i]
    /\ \A i \in DOMAIN heap :
          LET r  == CS_make_move(heap, i, "ll")
              s2 == r.heap[r.ref]
          IN /\ (heap[i].is_p1_turn /\ heap[i].current_value = <<1, 1, 1, 1>>)
                    => (s2.current_value = <<1, 1, 2, 1>> /\ ~s2.is_p1_turn)
             /\ (heap[i].is_p1_turn /\ heap[i].current_value = <<4, 1, 3, 1>>)
                    => s2.current_value = <<4, 1, 2, 1>>

C5_Witness ==
    /\ nmoves > 0
    /\ heap[game.current_state - 1].current_value = <<4, 1, 3, 1>>
    /\ heap[game.current_state - 1].is_p1_turn
    /\ cur.current_value = <<4, 1, 2, 1>>

\* is the move m open to the player to move in s: its own hand and the
\* opponent's hand it touches are both alive
BothAlive(s, m) ==
    /\ s.current_value[SourceHand(s.is_p1_turn, m)] # 0
    /\ s.current_value[TargetHand(s.is_p1_turn, m)] # 0

\* the moves ll, lr, rl, rr, in this order, that pass both filters
FilterBoth(s) ==
    SelectSeq(<<"ll", "lr", "rl", "rr">>, LAMBDA m : BothAlive(s, m))

\* C6: for every hand configuration in [0,4]^4 and either active player,
\* get_possible_moves() returns exactly the moves of ll, lr, rl, rr whose
\* source hand and target hand are both non-zero, in canonical order; it is
\* empty when both hands of the opponent are 0.
C6_BothFilters ==
    /\ CS_get_possible_moves(cur) = FilterBoth(cur)
    /\ ret.op = "get_possible_moves" => ret.val = FilterBoth(cur)

\* C7: in every chopsticks state reachable from (1,1,1,1) by legal moves
\* each of the four hand values is an integer in [0,4].
C7_HandsInRange ==
    \A i \in DOMAIN heap : \A j \in 1..4 : heap[i].current_value[j] \in 0..4

C7_Witness ==
    /\ nmoves > 0
    /\ \E j \in 1..4 : cur.current_value[j] = 0
    /\ \E j \in 1..4 : cur.current_value[j] = 4

\* is the candidate mv a member of get_possible_moves() of the current state
IsPossibleMove(mv) ==
    IF game.kind = "SS"
    THEN mv.t = "int" /\ mv.v \in Range(SS_get_possible_moves(cur))
    ELSE mv.t = "str" /\ mv.v \in Range(CS_get_possible_moves(cur))

\* C8: in every reachable state of either game and for every candidate move
\* (0, non-squares, numbers above the value, a string offered to subtract
\* square, an arbitrary string or a number offered to chopsticks),
\* is_valid_move(move) is true exactly when move is in get_possible_moves()
\* of that state, false otherwise, and the call leaves the state unchanged.
C8_ValidIffPossible ==
    /\ [](ret.op = "is_valid_move" => (ret.val <=> IsPossibleMove(ret.arg)))
    /\ [][ret'.op = "is_valid_move" => (heap' = heap /\ game' = game)]_vars

C8_Witness ==
    /\ game.kind = "SS"
    /\ nmoves = 1
    /\ cur.current_val = 6
    /\ ret = [op |-> "is_valid_move", arg |-> IntMove(5), val |-> FALSE]

\* Game.is_over and is_winner of the game being played
Over == IF game.kind = "SS" THEN SS_is_over(cur) ELSE CS_is_over(cur)
Winner(p) ==
    IF game.kind = "SS" THEN SS_is_winner(game, heap, p)
    ELSE CS_is_winner(game, heap, p)

Dropped == IF Len(heap) = MaxKept THEN 1 ELSE 0

\* C10: make_move never mutates the receiver in either game: after
\* s2 = s.make_move(m) every field of s is as before and s2 is another
\* object, and later moves applied to s2 do not change s either.
C10_ReceiverUnchanged ==
    [][Moved =>
          /\ Len(heap') = Len(heap) + 1 - Dropped
          /\ \A i \in DOMAIN heap : i > Dropped => heap'[i - Dropped] = heap[i]
      ]_vars

C10_Witness ==
    /\ game.kind = "CS"
    /\ nmoves = 2
    /\ Len(heap) = 3
    /\ heap[1] = CS_init(game.is_p1_turn)
    /\ heap[2] # heap[1]
    /\ heap[3].current_value # heap[2].current_value

\* the two hands of the player to move in s, and of the other player
OwnHands(s) ==
    IF s.is_p1_turn THEN <<s.current_value[1], s.current_value[2]>>
    ELSE <<s.current_value[3], s.current_value[4]>>
OtherHands(s) ==
    IF s.is_p1_turn THEN <<s.current_value[3], s.current_value[4]>>
    ELSE <<s.current_value[1], s.current_value[2]>>

\* C11: in every chopsticks state reachable by legal play the move list of
\* the active player is empty (the game is over) iff both hands of the
\* active player are dead or both hands of the opponent are dead.
C11_OverIffTwoDead ==
    CS_is_over(cur) <=>
        (OwnHands(cur) = <<0, 0>> \/ OtherHands(cur) = <<0, 0>>)

C11_Witness ==
    /\ nmoves > 0
    /\ CS_is_over(cur)
    /\ OwnHands(cur) = <<0, 0>>
    /\ ret = [op |-> "get_possible_moves", val |-> <<>>]

\* C12: in every subtract-square state reachable by legal moves from a
\* non-negative start, is_over holds iff the value is 0, and in every state
\* with value >= 1 the move 1 is legal.
C12_OverIffZero ==
    /\ SS_is_over(cur) <=> cur.current_val = 0
    /\ cur.current_val >= 1 =>
          (/\ SS_is_valid_move(cur, IntMove(1))
           /\ 1 \in Range(SS_get_possible_moves(cur)))

C12_Witness ==
    /\ nmoves = 2
    /\ heap[2].current_val = 1
    /\ ~SS_is_over(heap[2])
    /\ cur.current_val = 0
    /\ SS_is_over(cur)

\* the five characters str_to_move removes
Removed == {" ", "-", "_", "+", "/"}

AsMove(v) == IF game.kind = "SS" THEN IntMove(v) ELSE StrMove(v)

\* is_valid_move of the current state of the game being played
ValidNow(mv) ==
    IF game.kind = "SS" THEN SS_is_valid_move(cur, mv)
    ELSE CS_is_valid_move(cur, mv)

\* C14: whenever the game is not over the random strategy returns, for
\* every random choice, a member of current_state.get_possible_moves(),
\* which passes is_valid_move, and it does not change the game or its
\* state; when the move list is empty it fails and returns no move.
C14_StrategyMoveLegal ==
    /\ [](ret.op = "current_strategy" =>
             IF Over THEN ret.raised
             ELSE /\ ~ret.raised
                  /\ IsPossibleMove(AsMove(ret.val))
                  /\ ValidNow(AsMove(ret.val)))
    /\ [][ret'.op = "current_strategy" => (heap' = heap /\ game' = game)]_vars

C14_Witness ==
    /\ game.kind = "CS"
    /\ nmoves = 3
    /\ Len(CS_get_possible_moves(cur)) = 2
    /\ ret = [op |-> "current_strategy", val |-> "rr", raised |-> FALSE]

\* C15: in every subtract-square state made by the constructor or by any
\* sequence of make_move calls the cached possible_moves_list equals
\* get_possible_moves() recomputed from the value, so is_valid_move and
\* is_winner, which read the cache, agree with the recomputed list.
C15_CacheIsRecomputation ==
    /\ \A i \in DOMAIN heap :
          heap[i].possible_moves_list = SS_get_possible_moves(heap[i])
    /\ (cur.possible_moves_list = <<>>) <=> SS_is_over(cur)
    /\ \A n \in SSNumbers :
          SS_is_valid_move(cur, IntMove(n)) <=>
              n \in Range(SS_get_possible_moves(cur))

C15_Witness ==
    /\ nmoves = 1
    /\ heap[1].current_val = 9
    /\ heap[1].possible_moves_list = <<1, 4, 9>>
    /\ cur.current_val = 5
    /\ cur.possible_moves_list = <<1, 4>>

\* the cached list of the player to move in s, and of the other player
ActiveCache(s) ==
    IF s.is_p1_turn THEN s.possible_moves_p1 ELSE s.possible_moves_p2
IdleCache(s) ==
    IF s.is_p1_turn THEN s.possible_moves_p2 ELSE s.possible_moves_p1

\* C16: in every chopsticks state made by the constructor or by legal
\* make_move calls the cached list of the player to move equals
\* get_possible_moves() of the current hands; make_move rewrites only that
\* list and leaves the list of the player who just moved as it was in the
\* receiver.
C16_ActiveCacheFresh ==
    /\ [](\A i \in DOMAIN heap :
              ActiveCache(heap[i]) = CS_get_possible_moves(heap[i]))
    /\ [][Moved => IdleCache(cur') = ActiveCache(cur)]_vars

C16_Witness ==
    /\ nmoves >= 2
    /\ Len(ActiveCache(cur)) = 2
    /\ IdleCache(cur) = ActiveCache(heap[game.current_state - 1])
    /\ IdleCache(cur) # CS_get_possible_moves([cur EXCEPT !.is_p1_turn = ~@])

\* the sum, before reduction, of the acting hand and the targeted hand of
\* the move m in the state s
MoveSum(s, m) ==
    s.current_value[SourceHand(s.is_p1_turn, m)]
        + s.current_value[TargetHand(s.is_p1_turn, m)]

\* C17 as stated: for every legal chopsticks move in a state reachable from
\* the initial state the sum of the acting hand and the targeted hand
\* before reduction never exceeds 5.
C17_SumAtMost5 ==
    \A m \in Range(CS_get_possible_moves(cur)) : MoveSum(cur, m) <= 5

\* C17 amended: for every legal chopsticks move in a state reachable from
\* the initial state the sum before reduction never exceeds 8 (sums above 5
\* do occur), so that the mod-5 reduction coincides with 'if the sum is
\* >= 5 subtract 5'.
C17_SumAtMost8 ==
    \A m \in Range(CS_get_possible_moves(cur)) :
        LET sum == MoveSum(cur, m)
            new == CS_new_value(cur, m)[TargetHand(cur.is_p1_turn, m)]
        IN /\ sum >= 2
           /\ sum <= 8
           /\ new = (IF sum >= 5 THEN sum - 5 ELSE sum)

C17_Witness ==
    /\ nmoves > 0
    /\ \E m \in Range(CS_get_possible_moves(heap[game.current_state - 1])) :
          /\ MoveSum(heap[game.current_state - 1], m) = 8
          /\ cur.current_value = CS_new_value(heap[game.current_state - 1], m)
          /\ cur.current_value[TargetHand(~cur.is_p1_turn, m)] = 3

\* C18: SSGameCurrentState equality is structural over all fields: a state
\* equals other iff other is an SSGameCurrentState with the same active
\* player, the same value and the same cached list; a state whose cached
\* list was replaced by another one ([] for a non-empty list) is unequal to
\* the otherwise identical state, and states reached by make_move
\* sequences that end with the same value and active player are equal.
C18_StructuralEq ==
    ret.op = "__eq__" =>
        LET other == ret.arg
            alike == /\ other.t = "SSGameCurrentState"
                     /\ other.v.is_p1_turn = cur.is_p1_turn
                     /\ other.v.current_val = cur.current_val
        IN /\ ret.val <=> (other.t = "SSGameCurrentState" /\ other.v = cur)
           /\ (alike /\ other.made \in {"constructed", "moved"}) => ret.val
           /\ (alike /\ other.made = "tampered"
                  /\ cur.possible_moves_list # <<>>) => ~ret.val
           /\ other.t # "SSGameCurrentState" => ~ret.val

C18_Witness ==
    /\ nmoves = 2
    /\ cur.current_val = 4
    /\ ret.op = "__eq__"
    /\ ret.arg.made = "moved"
    /\ ret.val

\* a player has two dead hands in s
TwoDead(s) == OwnHands(s) = <<0, 0>> \/ OtherHands(s) = <<0, 0>>

\* C19 as stated: chopsticks play always ends: every sequence of legal
\* moves from (1,1,1,1), continued as long as a legal move exists, reaches
\* a state in which a player has two dead hands.
C19_AlwaysEnds == <>TwoDead(cur)

\* C19 amended: chopsticks play need not end (a play can revisit a state
\* and go on forever); a play from (1,1,1,1) stops, for want of a legal
\* move, only in a state in which a player has two dead hands.
C19_StopsOnlyWhenTwoDead ==
    (\A m \in CSStrings : ~CS_is_valid_move(cur, StrMove(m))) => TwoDead(cur)

C19_Witness ==
    /\ Len(heap) = MaxKept
    /\ ~TwoDead(heap[game.current_state - 1])
    /\ TwoDead(cur)
    /\ \A m \in CSStrings : ~CS_is_valid_move(cur, StrMove(m))

\* C20: in every chopsticks state reachable by legal play the player who is
\* not to move has a live hand; so in every reachable terminal state it is
\* the active player whose two hands are dead, and the branches of
\* get_possible_moves for two dead opponent hands with a live own hand are
\* never taken.
C20_IdlePlayerAlive ==
    \A i \in DOMAIN heap :
        /\ OtherHands(heap[i]) # <<0, 0>>
        /\ CS_is_over(heap[i]) => OwnHands(heap[i]) = <<0, 0>>
        /\ ~(OtherHands(heap[i]) = <<0, 0>> /\ OwnHands(heap[i]) # <<0, 0>>)

C20_Witness ==
    /\ nmoves >= 5
    /\ CS_is_over(cur)
    /\ OwnHands(cur) = <<0, 0>>
    /\ OtherHands(cur)[1] # 0
    /\ OtherHands(cur)[2] = 0

\* other is a chopsticks state with the player to move and the hands of cur
SameTurnAndHands(other) ==
    /\ other.t = "CSGameCurrentState"
    /\ other.v.is_p1_turn = cur.is_p1_turn
    /\ other.v.current_value = cur.current_value

\* C21: two chopsticks states reached from the same initial state by legal
\* moves that have the same active player and the same four hands compare
\* equal under CSGameCurrentState.__eq__.
C21_SameHandsEqual ==
    (ret.op = "__eq__" /\ SameTurnAndHands(ret.arg)) => ret.val

C21_Witness ==
    /\ nmoves = 4
    /\ cur.is_p1_turn
    /\ cur.current_value = <<3, 0, 2, 4>>
    /\ ret.op = "__eq__"
    /\ SameTurnAndHands(ret.arg)
    /\ IdleCache(cur) = <<"ll", "lr", "rl", "rr">>
    /\ IdleCache(ret.arg.v) = <<"ll", "rl">>
    /\ ~ret.val

\* C22: after any sequence of moves stored into game.current_state the turn
\* kept on the game itself, which str(game) prints, is the active player of
\* game.current_state.
C22_GameTurnIsActivePlayer ==
    /\ game.is_p1_turn = cur.is_p1_turn
    /\ ret.op = "__str__" => ret.val[2] = get_current_player_name(cur)

C22_Witness ==
    /\ game.kind = "CS"
    /\ nmoves = 1
    /\ cur.current_value = <<1, 1, 2, 1>>
    /\ get_current_player_name(cur) = "p2"
    /\ ret.op = "__str__"
    /\ ret.val[2] = "p1"

====
